---- MODULE Spec2Model ----
(***************************************************************************)
(* SCE CICD server (server.py): the /webhook handler github_webhook, the   *)
(* registry REPO_MAP, and the deployment run handle_deploy that FastAPI    *)
(* executes as a background task in a worker thread.                       *)
(*                                                                         *)
(* Strings are sequences of tokens: a token is a run of characters without *)
(* "/" (or a single character, for commit ids) and "/" is a token of its   *)
(* own, so "refs/heads/main" is <<"refs","/","heads","/","main">> and ""   *)
(* is <<>>.  A JSON field is a record [t, v]: t = "str" with the string in *)
(* v, t = "null" (Python None) or t = "missing" (key absent).              *)
(***************************************************************************)
EXTENDS Integers, Sequences, FiniteSets, TLC

\* Bounds of the model: requests the server handles, direct calls of handle_deploy
MaxRequests == 2
MaxCalls == 1
\* longest list of configuration entries loaded when checking the registry
MaxEntries == 3

\* status.commit_id[:7]
ShortHashLen == 7

(***************************************************************************)
(* JSON values and inputs                                                  *)
(***************************************************************************)
Missing == [t |-> "missing", v |-> <<>>]
Null == [t |-> "null", v |-> <<>>]
Str(s) == [t |-> "str", v |-> s]

main == <<"main">>
dev == <<"dev">>
r1 == <<"sce-site">>
r2 == <<"other">>

Events == {"push", "pull_request", "none"}

Refs ==
  { Str(<<"refs", "/", "heads", "/", "main">>),
    Str(<<"refs", "/", "heads", "/", "dev">>),
    Str(<<"refs", "/", "heads", "/", "feature", "/", "main">>),
    Str(<<"refs", "/", "tags", "/", "main">>),
    Missing,
    Null }

\* payload["repository"]: absent, null, or an object whose "name" is a JSON field
NoRepository == [t |-> "missing", name |-> Missing]
NullRepository == [t |-> "null", name |-> Missing]
Repository(n) == [t |-> "obj", name |-> n]
Repositories ==
  { Repository(Str(r1)), Repository(Str(r2)), NoRepository, NullRepository }

\* payload["head_commit"]: absent, null, or an object with id, message, author;
\* author is absent, null, or an object whose "username" is a JSON field
NoAuthor == [t |-> "missing", username |-> Missing]
NullAuthor == [t |-> "null", username |-> Missing]
Author(u) == [t |-> "obj", username |-> u]
NoCommit == [t |-> "missing", id |-> Missing, message |-> Missing, author |-> NoAuthor]
NullCommit == [t |-> "null", id |-> Missing, message |-> Missing, author |-> NoAuthor]
Commit(i, m, a) == [t |-> "obj", id |-> i, message |-> m, author |-> a]

HexId == <<"a", "b", "c", "d", "e", "f", "1", "2", "3">>
PlaceholderId == <<"n", "o", " ", "i", "d">>
\* an id with a tab in it, and an id shorter than a short hash
TabId == <<"a", "b", "c", "\t", "d", "e", "f", "g", "h">>
ShortId == <<"a", "b", "c">>
Unknown == <<"u", "n", "k", "n", "o", "w", "n">>
NoMessage == <<"No message">>

HeadCommits ==
  { NoCommit,
    NullCommit,
    Commit(Str(HexId), Str(<<"fix">>), Author(Str(<<"alice">>))),
    Commit(Str(PlaceholderId), Missing, Author(Missing)),
    Commit(Str(TabId), Str(<<"fix">>), Author(Str(<<"alice">>))),
    Commit(Str(ShortId), Str(<<"fix">>), Author(Str(<<"alice">>))),
    Commit(Null, Str(<<"fix">>), NoAuthor),
    Commit(Missing, Str(<<"fix">>), NullAuthor) }

\* head commits of the pushes sent to the server
PushedCommits ==
  { NoCommit, Commit(Str(HexId), Str(<<"fix">>), Author(Str(<<"alice">>))) }

Payloads ==
  { [ref |-> r, repository |-> p, head_commit |-> c] :
      r \in Refs, p \in Repositories, c \in PushedCommits }

\* the body of a request whose JSON was never parsed
Unparsed == [ref |-> Missing, repository |-> NoRepository, head_commit |-> NoCommit]

\* how a child process can end: it exits with a code, it is killed by the
\* timeout (subprocess.TimeoutExpired) or it cannot be launched (OSError)
ProcOutcomes ==
  { [kind |-> "exit", code |-> c] : c \in {0, 1} }
    \cup { [kind |-> "timeout", code |-> 0], [kind |-> "launch_error", code |-> 0] }

(***************************************************************************)
(* Configuration: config.yml entries, working directories, environment     *)
(***************************************************************************)
RepoConfig(n, b, p, cs) ==
  [name |-> n, branch |-> b, path |-> p, containers_to_force_recreate |-> cs]

Paths == {"p1", "p2"}

Configs ==
  { << RepoConfig(r1, main, "p1", <<"web">>), RepoConfig(r1, dev, "p2", <<>>) >>,
    << RepoConfig(r1, main, "p1", <<"web">>), RepoConfig(r1, main, "p1", <<>>) >> }

\* what `git branch --show-current` finds in a working directory
NoDir == [exists |-> FALSE, branch |-> <<>>]
Worktree(b) == [exists |-> TRUE, branch |-> b]
Worktrees ==
  { [p \in Paths |-> IF p = "p1" THEN w ELSE Worktree(dev)] :
      w \in {Worktree(main), Worktree(dev), NoDir} }

(***************************************************************************)
(* Pure helpers                                                            *)
(***************************************************************************)
Last(s) == s[Len(s)]

\* str.split("/"): the "/"-free pieces of s, in order; never empty
RECURSIVE Split(_)
Split(s) ==
  IF s = <<>> THEN << <<>> >>
  ELSE LET rest == Split(Tail(s))
       IN IF Head(s) = "/" THEN << <<>> >> \o rest
          ELSE << <<Head(s)>> \o Head(rest) >> \o Tail(rest)

\* payload.get("ref", "") (the caller has excluded a null ref)
RefOf(payload) == IF payload.ref.t = "str" THEN payload.ref.v ELSE <<>>

\* branch = payload.get("ref", "").split("/")[-1]
BranchOf(payload) == Last(Split(RefOf(payload)))

\* repo_name = payload.get("repository", {}).get("name"); None is Null
RepoNameOf(payload) ==
  IF payload.repository.t = "obj" /\ payload.repository.name.t = "str"
  THEN payload.repository.name
  ELSE Null

\* faulty variant of LoadEntries: an entry does not replace an earlier one with
\* the same key (setdefault)
RECURSIVE LoadEntries_FirstWins(_, _)
LoadEntries_FirstWins(entries, map) ==
  IF entries = <<>> THEN map
  ELSE LET cfg == Head(entries)
           key == <<cfg.name, cfg.branch>>
       IN LoadEntries_FirstWins(Tail(entries),
            [k \in DOMAIN map \cup {key} |-> IF k \in DOMAIN map THEN map[k] ELSE cfg])

\* the for loop filling REPO_MAP: a later entry overwrites an earlier one
RECURSIVE LoadEntries(_, _)
LoadEntries(entries, map) ==
  IF entries = <<>> THEN map
  ELSE LET cfg == Head(entries)
           key == <<cfg.name, cfg.branch>>
       IN LoadEntries(Tail(entries),
                      [k \in DOMAIN map \cup {key} |-> IF k = key THEN cfg ELSE map[k]])

\* REPO_MAP after module import: the file is read only when not in development
LoadRepoMap(entries, is_development) ==
  IF ~is_development THEN LoadEntries(entries, [k \in {} |-> 0])
  ELSE [k \in {} |-> 0]

\* faulty variant of RepoMapGet: the lookup goes by repository name alone
RepoMapGet_ByName(map, repo_name, branch) ==
  IF repo_name.t = "str" /\ \E k \in DOMAIN map : k[1] = repo_name.v
  THEN << map[CHOOSE k \in DOMAIN map : k[1] = repo_name.v] >>
  ELSE <<>>

\* REPO_MAP.get(key): <<>> is None
RepoMapGet(map, repo_name, branch) ==
  IF repo_name.t = "str" /\ <<repo_name.v, branch>> \in DOMAIN map
  THEN << map[<<repo_name.v, branch>>] >>
  ELSE <<>>

(***************************************************************************)
(* State                                                                   *)
(***************************************************************************)
VARIABLES
  development,   \* args.development
  webhook_url,   \* CICD_DISCORD_WEBHOOK_URL is set in the environment
  config,        \* the "repos" entries of config.yml
  REPO_MAP,      \* (name, branch) -> RepoConfig
  worktree,      \* path -> state of the working directory
  nreq,          \* POST /webhook requests handled so far
  smee_sets,     \* times last_smee_request_timestamp was set
  last,          \* the last request handled: input, response, what it did
  responses,     \* response status of request 1..nreq
  runs           \* request id -> the handle_deploy background task it added

vars ==
  << development, webhook_url, config, REPO_MAP, worktree, nreq, smee_sets,
     last, responses, runs >>

static == << development, webhook_url, config, REPO_MAP, worktree >>

NoRequest ==
  [event |-> "none", ref |-> Missing, repository |-> NoRepository,
   response |-> "none", looked_up |-> FALSE, branch_checked |-> FALSE,
   skip_report |-> <<>>, task |-> 0]

Init ==
  /\ development \in BOOLEAN
  /\ webhook_url \in BOOLEAN
  /\ config \in Configs
  /\ REPO_MAP = LoadRepoMap(config, development)
  /\ worktree \in Worktrees
  /\ nreq = 0
  /\ smee_sets = 0
  /\ last = NoRequest
  /\ responses = <<>>
  /\ runs = [i \in {} |-> 0]


(***************************************************************************)
(* handle_deploy, run_command, send_notification                           *)
(***************************************************************************)
\* " ".join(args)
RECURSIVE Join(_)
Join(args) ==
  IF args = <<>> THEN <<>>
  ELSE IF Len(args) = 1 THEN <<args[1]>>
  ELSE <<args[1], " ">> \o Join(Tail(args))

\* faulty variant of run_command: the result of a child that timed out or could
\* not be launched keeps exit code 0
run_command_ZeroOnError(args, outcome) ==
  IF outcome.kind = "exit"
  THEN [command |-> Join(args), exit_code |-> outcome.code, success |-> outcome.code = 0]
  ELSE [command |-> Join(args), exit_code |-> 0, success |-> FALSE]

\* run_command: the ExecutionResult for a child process that ended as `outcome`
run_command(args, outcome) ==
  IF outcome.kind = "exit"
  THEN [command |-> Join(args), exit_code |-> outcome.code, success |-> outcome.code = 0]
  ELSE [command |-> Join(args), exit_code |-> 1, success |-> FALSE]

\* commit = payload.get("head_commit") or {}
CommitOf(head_commit) ==
  IF head_commit.t = "obj" THEN head_commit ELSE Commit(Missing, Missing, NoAuthor)

\* faulty variant of Get: the field is read without a default
Get_NoDefault(field, default) == field

\* dict.get(key, default): the default only when the key is absent
Get(field, default) == IF field.t = "missing" THEN Str(default) ELSE field

\* commit.get("author", {}).get("username", "unknown") raises on a null author
AuthorRaises(commit) == commit.author.t = "null"

DeploymentStatus(repo_cfg, commit, is_dev) ==
  [repo |-> repo_cfg.name, branch |-> repo_cfg.branch,
   commit_id |-> Get(commit.id, Unknown),
   commit_msg |-> Get(commit.message, NoMessage),
   author |-> IF commit.author.t = "obj" THEN Get(commit.author.username, Unknown)
              ELSE Str(Unknown),
   git_execution_result |-> <<>>, docker_execution_result |-> <<>>,
   docker_force_execution_result |-> <<>>, is_dev |-> is_dev]

\* faulty variant of Title: the dev-mode flag is not looked at
Title_IgnoresDev(status) ==
  IF status.git_execution_result = <<>> \/ status.git_execution_result[1].success
  THEN "Deployment Successful"
  ELSE "Deployment Failed"

\* faulty variant of Title: a failed docker-compose step also counts as failure
Title_StepsCount(status) ==
  IF status.is_dev THEN "[Development Mode]"
  ELSE IF /\ status.git_execution_result = <<>> \/ status.git_execution_result[1].success
          /\ status.docker_execution_result = <<>>
               \/ status.docker_execution_result[1].success
          /\ status.docker_force_execution_result = <<>>
               \/ status.docker_force_execution_result[1].success
       THEN "Deployment Successful"
  ELSE "Deployment Failed"

\* title of the embed: failure unless dev mode or the git pull is absent or good
Title(status) ==
  IF status.is_dev THEN "[Development Mode]"
  ELSE IF status.git_execution_result = <<>> \/ status.git_execution_result[1].success
       THEN "Deployment Successful"
  ELSE "Deployment Failed"

Min(a, b) == IF a < b THEN a ELSE b

\* faulty variant of CommitIdToUse: every id is cut to a short hash
CommitIdToUse_AlwaysShort(commit_id) ==
  SubSeq(commit_id, 1, Min(ShortHashLen, Len(commit_id)))

\* commit_id_to_use, for a commit_id that is a string
CommitIdToUse(commit_id) ==
  IF \A i \in 1..Len(commit_id) : commit_id[i] # " "
  THEN SubSeq(commit_id, 1, Min(ShortHashLen, Len(commit_id)))
  ELSE commit_id

\* the execution results the description lists: those that are not None
Shown(status) ==
  status.git_execution_result \o status.docker_execution_result
    \o status.docker_force_execution_result

\* send_notification(status) as the last call of handle_deploy: the run with
\* the status handed over, the embed posted (if any) and where the run ends.
\* Without a webhook URL it returns at once; `" " not in None` raises TypeError.
send_notification(run, status) ==
  LET handed == [run EXCEPT !.status = <<status>>, !.handed = Append(@, status)]
  IN IF ~webhook_url THEN [handed EXCEPT !.pc = "done"]
     ELSE IF status.commit_id.t = "null" THEN [handed EXCEPT !.pc = "crashed"]
     ELSE [handed EXCEPT
             !.pc = "done",
             !.reports = Append(@, [title |-> Title(status),
                                    commit |-> CommitIdToUse(status.commit_id.v),
                                    repo |-> status.repo, branch |-> status.branch,
                                    results |-> Shown(status)])]

\* faulty variant of SyncFailed: the run goes on after a failed git pull
SyncFailed_Ignored(status) == FALSE

\* not status.git_execution_result.success
SyncFailed(status) == ~status.git_execution_result[1].success

\* faulty variant of ForceRecreateDeclared: the force-recreate step always runs
ForceRecreateDeclared_Always(repo_cfg) == TRUE

\* if repo_cfg.containers_to_force_recreate:
ForceRecreateDeclared(repo_cfg) == repo_cfg.containers_to_force_recreate # <<>>

\* get_docker_images_disk_usage_bytes() after the last notification
Polled(run) == IF run.pc = "done" THEN [run EXCEPT !.polled = TRUE] ELSE run

\* faulty variant of Executed: a command is run a second time (a retry)
Executed_Twice(run, args) ==
  [run EXCEPT !.cmds = @ \o << [args |-> args, cwd |-> run.repo_cfg.path],
                                [args |-> args, cwd |-> run.repo_cfg.path] >>]

\* subprocess.run(args, cwd=cwd) has been called once by the run
Executed(run, args) == [run EXCEPT !.cmds = Append(@, [args |-> args, cwd |-> run.repo_cfg.path])]

\* faulty variant of HandleDeployEntry: the gauge is set after the dev-mode
\* return, so a dev-mode run never sets it
HandleDeployEntry_GaugeAfterDevReturn(t) ==
  /\ t \in DOMAIN runs
  /\ runs[t].pc = "scheduled"
  /\ LET run == runs[t]
         commit == CommitOf(run.head_commit)
         status == DeploymentStatus(run.repo_cfg, commit, run.is_dev)
     IN runs' = [runs EXCEPT ![t] =
          IF AuthorRaises(commit) THEN [run EXCEPT !.pc = "crashed"]
          ELSE IF run.is_dev THEN send_notification(run, status)
          ELSE [run EXCEPT !.status = <<status>>, !.pc = "git_pull",
                           !.gauge_sets = @ + 1]]
  /\ UNCHANGED << static, nreq, smee_sets, last, responses >>

\* entry of handle_deploy up to the dev-mode return
HandleDeployEntry(t) ==
  /\ t \in DOMAIN runs
  /\ runs[t].pc = "scheduled"
  /\ LET run == [runs[t] EXCEPT !.gauge_sets = @ + 1]
         commit == CommitOf(run.head_commit)
         status == DeploymentStatus(run.repo_cfg, commit, run.is_dev)
     IN runs' = [runs EXCEPT ![t] =
          IF AuthorRaises(commit) THEN [run EXCEPT !.pc = "crashed"]
          ELSE IF run.is_dev THEN send_notification(run, status)
          ELSE [run EXCEPT !.status = <<status>>, !.pc = "git_pull"]]
  /\ UNCHANGED << static, nreq, smee_sets, last, responses >>

\* git pull origin <branch>, and the return when it failed
GitPull(t) ==
  /\ t \in DOMAIN runs
  /\ runs[t].pc = "git_pull"
  /\ \E outcome \in ProcOutcomes :
       LET args == <<"git", "pull", "origin">> \o runs[t].repo_cfg.branch
           run == Executed(runs[t], args)
           status == [run.status[1] EXCEPT
                        !.git_execution_result = << run_command(args, outcome) >>]
       IN runs' = [runs EXCEPT ![t] =
            IF SyncFailed(status) THEN send_notification(run, status)
            ELSE [run EXCEPT !.status = <<status>>, !.pc = "docker_compose"]]
  /\ UNCHANGED << static, nreq, smee_sets, last, responses >>

\* faulty variant of DockerComposeUp: a failed rebuild ends the run, as a failed
\* git pull does
DockerComposeUp_StopsOnFailure(t) ==
  /\ t \in DOMAIN runs
  /\ runs[t].pc = "docker_compose"
  /\ \E outcome \in ProcOutcomes :
       LET args == <<"docker-compose", "up", "--build", "-d">>
           run == Executed(runs[t], args)
           status == [run.status[1] EXCEPT
                        !.docker_execution_result = << run_command(args, outcome) >>]
       IN runs' = [runs EXCEPT ![t] =
            IF ForceRecreateDeclared(run.repo_cfg)
               /\ status.docker_execution_result[1].success
            THEN [run EXCEPT !.status = <<status>>, !.pc = "force_recreate"]
            ELSE Polled(send_notification(run, status))]
  /\ UNCHANGED << static, nreq, smee_sets, last, responses >>

\* docker-compose up --build -d, and the end of the run when no container is
\* to be force-recreated
DockerComposeUp(t) ==
  /\ t \in DOMAIN runs
  /\ runs[t].pc = "docker_compose"
  /\ \E outcome \in ProcOutcomes :
       LET args == <<"docker-compose", "up", "--build", "-d">>
           run == Executed(runs[t], args)
           status == [run.status[1] EXCEPT
                        !.docker_execution_result = << run_command(args, outcome) >>]
       IN runs' = [runs EXCEPT ![t] =
            IF ForceRecreateDeclared(run.repo_cfg)
            THEN [run EXCEPT !.status = <<status>>, !.pc = "force_recreate"]
            ELSE Polled(send_notification(run, status))]
  /\ UNCHANGED << static, nreq, smee_sets, last, responses >>

\* docker-compose up --build -d --force-recreate --no-deps <containers>, and
\* the end of the run
ForceRecreate(t) ==
  /\ t \in DOMAIN runs
  /\ runs[t].pc = "force_recreate"
  /\ \E outcome \in ProcOutcomes :
       LET args == <<"docker-compose", "up", "--build", "-d", "--force-recreate", "--no-deps">>
                     \o runs[t].repo_cfg.containers_to_force_recreate
           run == Executed(runs[t], args)
           status == [run.status[1] EXCEPT
                        !.docker_force_execution_result = << run_command(args, outcome) >>]
       IN runs' = [runs EXCEPT ![t] = Polled(send_notification(run, status))]
  /\ UNCHANGED << static, nreq, smee_sets, last, responses >>

(***************************************************************************)
(* POST /webhook                                                           *)
(***************************************************************************)
\* faulty variant of add_task: handle_deploy is called in the handler, which has run
\* its entry (gauge, status) by the time the response is returned
add_task_Inline(target, payload, is_dev) ==
  [repo_cfg |-> target, head_commit |-> payload.head_commit, is_dev |-> is_dev,
   pc |-> "git_pull",
   status |-> << DeploymentStatus(target, CommitOf(payload.head_commit), is_dev) >>,
   cmds |-> <<>>, gauge_sets |-> 1,
   handed |-> <<>>, reports |-> <<>>, polled |-> FALSE]

\* background_tasks.add_task(handle_deploy, target, payload, args.development):
\* the call is recorded and starts after the response has been returned.  Of
\* the payload the task keeps head_commit, the one key handle_deploy reads.
add_task(target, payload, is_dev) ==
  [repo_cfg |-> target, head_commit |-> payload.head_commit, is_dev |-> is_dev,
   pc |-> "scheduled", status |-> <<>>, cmds |-> <<>>, gauge_sets |-> 0,
   handed |-> <<>>, reports |-> <<>>, polled |-> FALSE]

\* the embed push_skipped_update_as_discord_embed posts
push_skipped_update_as_discord_embed(repo_config, incoming_branch, local_branch) ==
  [title |-> "Branch Mismatch: Deployment Skipped",
   incoming |-> incoming_branch, local |-> local_branch, path |-> repo_config.path]

\* faulty variant of BranchMismatch: the guard lets every push through
BranchMismatch_Never(current_branch, branch) == FALSE

\* current_branch != branch
BranchMismatch(current_branch, branch) == current_branch # branch

\* faulty variant of IsPush: the event kind is not looked at
IsPush_Any(event) == TRUE

\* event == "push"
IsPush(event) == event = "push"

\* the handler's return (or the exception that ends it), with what it did
Answer(event, payload, response, looked_up, branch_checked, skip_report, task) ==
  /\ nreq' = nreq + 1
  /\ smee_sets' = smee_sets + 1
  /\ responses' = Append(responses, response)
  /\ last' = [event |-> event, ref |-> payload.ref, repository |-> payload.repository,
              response |-> response, looked_up |-> looked_up,
              branch_checked |-> branch_checked, skip_report |-> skip_report,
              task |-> task]

github_webhook(event, payload) ==
  /\ nreq < MaxRequests
  /\ UNCHANGED static
  /\ IF ~IsPush(event) THEN
       \* returns before request.json() is awaited
       /\ Answer(event, Unparsed, "ignored", FALSE, FALSE, <<>>, 0)
       /\ UNCHANGED runs
     ELSE IF payload.ref.t = "null" \/ payload.repository.t = "null" THEN
       \* None.split / None.get raise AttributeError: HTTP 500
       /\ Answer(event, payload, "error", FALSE, FALSE, <<>>, 0)
       /\ UNCHANGED runs
     ELSE
       LET branch == BranchOf(payload)
           repo_name == RepoNameOf(payload)
           target == RepoMapGet(REPO_MAP, repo_name, branch)
       IN IF target = <<>> THEN
            /\ Answer(event, payload, "ignored", TRUE, FALSE, <<>>, 0)
            /\ UNCHANGED runs
          ELSE IF ~development /\ ~worktree[target[1].path].exists THEN
            \* subprocess.run(cwd=target.path) raises FileNotFoundError: HTTP 500
            /\ Answer(event, payload, "error", TRUE, TRUE, <<>>, 0)
            /\ UNCHANGED runs
          ELSE IF ~development
                  /\ BranchMismatch(worktree[target[1].path].branch, branch) THEN
            /\ Answer(event, payload, "skipped", TRUE, TRUE,
                      << push_skipped_update_as_discord_embed(
                           target[1], branch, worktree[target[1].path].branch) >>, 0)
            /\ UNCHANGED runs
          ELSE
            /\ Answer(event, payload, "accepted", TRUE, ~development, <<>>, nreq + 1)
            /\ runs' = runs @@ ((nreq + 1) :> add_task(target[1], payload, development))

Webhook == \E event \in Events, payload \in Payloads : github_webhook(event, payload)

Tasks == 1..(MaxRequests + MaxCalls)

Next ==
  \/ Webhook
  \/ \E t \in Tasks : HandleDeployEntry(t)
  \/ \E t \in Tasks : GitPull(t)
  \/ \E t \in Tasks : DockerComposeUp(t)
  \/ \E t \in Tasks : ForceRecreate(t)

Spec == Init /\ [][Next]_vars

(***************************************************************************)
(* handle_deploy called directly, with any head commit and either is_dev   *)
(***************************************************************************)
InitPipeline ==
  /\ development = FALSE
  /\ webhook_url \in BOOLEAN
  /\ config \in Configs
  /\ REPO_MAP = LoadRepoMap(config, development)
  /\ worktree = [p \in Paths |-> Worktree(dev)]
  /\ nreq = 0
  /\ smee_sets = 0
  /\ last = NoRequest
  /\ responses = <<>>
  /\ runs = [i \in {} |-> 0]

CallHandleDeploy ==
  /\ nreq < MaxCalls
  /\ \E key \in DOMAIN REPO_MAP, head_commit \in HeadCommits, is_dev \in BOOLEAN :
       runs' = runs @@ ((nreq + 1) :>
                 add_task(REPO_MAP[key], [Unparsed EXCEPT !.head_commit = head_commit],
                          is_dev))
  /\ nreq' = nreq + 1
  /\ UNCHANGED << static, smee_sets, last, responses >>

NextPipeline ==
  \/ CallHandleDeploy
  \/ \E t \in Tasks : HandleDeployEntry(t)
  \/ \E t \in Tasks : GitPull(t)
  \/ \E t \in Tasks : DockerComposeUp(t)
  \/ \E t \in Tasks : ForceRecreate(t)

SpecPipeline == InitPipeline /\ [][NextPipeline]_vars

(***************************************************************************)
(* The server receiving pushes whose payloads lack fields                  *)
(***************************************************************************)
\* head commits that lack id, message, author or the author's username
MissingFieldCommits ==
  { NoCommit,
    Commit(Missing, Str(<<"fix">>), Author(Str(<<"alice">>))),
    Commit(Str(HexId), Missing, Author(Str(<<"alice">>))),
    Commit(Str(HexId), Str(<<"fix">>), NoAuthor),
    Commit(Str(HexId), Str(<<"fix">>), Author(Missing)) }

\* push payloads with ref, repository (or its name) or head_commit fields absent
PayloadsMissingFields ==
  { [ref |-> r, repository |-> p, head_commit |-> c] :
      r \in {Missing, Str(<<"refs", "/", "heads", "/">> \o main)},
      p \in {NoRepository, Repository(Missing), Repository(Str(r1))},
      c \in MissingFieldCommits }

\* deployment mode, every working directory present and on its tracked branch
InitMissingFields ==
  /\ development = FALSE
  /\ webhook_url \in BOOLEAN
  /\ config \in Configs
  /\ REPO_MAP = LoadRepoMap(config, development)
  /\ worktree = [p \in Paths |-> IF p = "p1" THEN Worktree(main) ELSE Worktree(dev)]
  /\ nreq = 0
  /\ smee_sets = 0
  /\ last = NoRequest
  /\ responses = <<>>
  /\ runs = [i \in {} |-> 0]

PushMissingFields ==
  \E payload \in PayloadsMissingFields : github_webhook("push", payload)

NextMissingFields ==
  \/ PushMissingFields
  \/ \E t \in Tasks : HandleDeployEntry(t)
  \/ \E t \in Tasks : GitPull(t)
  \/ \E t \in Tasks : DockerComposeUp(t)
  \/ \E t \in Tasks : ForceRecreate(t)

SpecMissingFields == InitMissingFields /\ [][NextMissingFields]_vars

(***************************************************************************)
(* Properties                                                              *)
(***************************************************************************)
Key(run) == << run.repo_cfg.name, run.repo_cfg.branch >>

\* handle_deploy has been entered and has not returned or raised
InFlight(t) == runs[t].pc \in {"git_pull", "docker_compose", "force_recreate"}

\* the last request was a push whose body the handler could read
LastParsed == last.event = "push" /\ last.ref.t # "null" /\ last.repository.t # "null"

\* the (repository name, branch) pair of the last request has a registry entry
LastMatched ==
  /\ LastParsed
  /\ RepoNameOf(last).t = "str"
  /\ << RepoNameOf(last).v, BranchOf(last) >> \in DOMAIN REPO_MAP

LastTarget == REPO_MAP[<< RepoNameOf(last).v, BranchOf(last) >>]

NoOutcome(status) ==
  /\ status.git_execution_result = <<>>
  /\ status.docker_execution_result = <<>>
  /\ status.docker_force_execution_result = <<>>

\* C1: at most one handle_deploy run per (repository, branch) key is in
\* flight at any instant.
C1_OneRunInFlightPerKey ==
  \A t1, t2 \in DOMAIN runs :
    (t1 # t2 /\ InFlight(t1) /\ InFlight(t2)) => Key(runs[t1]) # Key(runs[t2])

\* C2: a push that matches a registry target while the working directory has
\* another branch checked out is answered "skipped", the mismatch report names
\* the incoming and the local branch, and no handle_deploy is scheduled for it.
C2_BranchMismatchSkips ==
  /\ (LastMatched /\ worktree[LastTarget.path].exists
        /\ worktree[LastTarget.path].branch # BranchOf(last))
       => /\ last.response = "skipped"
          /\ Len(last.skip_report) = 1
          /\ last.skip_report[1].incoming = BranchOf(last)
          /\ last.skip_report[1].local = worktree[LastTarget.path].branch
          /\ last.task = 0
          /\ nreq \notin DOMAIN runs
  /\ \A i \in 1..Len(responses) : responses[i] = "skipped" => i \notin DOMAIN runs

C2_Witness ==
  /\ LastMatched
  /\ worktree[LastTarget.path].exists
  /\ worktree[LastTarget.path].branch # BranchOf(last)
  /\ last.response = "skipped"
  /\ 1 \in DOMAIN runs

\* the statuses of run t: the one it holds and those it handed to the notifier
Statuses(t) ==
  { runs[t].status[i] : i \in 1..Len(runs[t].status) }
    \cup { runs[t].handed[i] : i \in 1..Len(runs[t].handed) }

IsGitPull(cmd) == cmd.args[1] = "git"

\* C3: when the git pull of a run did not succeed, the run executes neither
\* the rebuild nor the force-recreate command, and the status handed to the
\* notifier has no rebuild and no force-recreate outcome.
C3_SyncFailureStopsRun ==
  \A t \in DOMAIN runs :
    \A status \in Statuses(t) :
      (status.git_execution_result # <<>> /\ ~status.git_execution_result[1].success)
        => /\ Len(runs[t].cmds) = 1
           /\ IsGitPull(runs[t].cmds[1])
           /\ runs[t].pc \in {"done", "crashed"}
           /\ \A h \in Statuses(t) :
                /\ h.docker_execution_result = <<>>
                /\ h.docker_force_execution_result = <<>>

C3_Witness ==
  \E t \in DOMAIN runs :
    /\ runs[t].pc = "done"
    /\ Len(runs[t].handed) = 1
    /\ runs[t].handed[1].git_execution_result # <<>>
    /\ ~runs[t].handed[1].git_execution_result[1].success
    /\ runs[t].handed[1].git_execution_result[1].exit_code = 1

\* C4: in every state of every run, a force-recreate outcome is present only
\* with a rebuild outcome and a non-empty container list, and a rebuild
\* outcome only with a sync outcome that succeeded.
C4_StatusInvariant ==
  \A t \in DOMAIN runs :
    \A status \in Statuses(t) :
      /\ status.docker_force_execution_result # <<>>
           => /\ status.docker_execution_result # <<>>
              /\ runs[t].repo_cfg.containers_to_force_recreate # <<>>
      /\ status.docker_execution_result # <<>>
           => /\ status.git_execution_result # <<>>
              /\ status.git_execution_result[1].success

C4_Witness ==
  \E t \in DOMAIN runs :
    /\ runs[t].pc = "done"
    /\ runs[t].repo_cfg.containers_to_force_recreate = <<>>
    /\ Len(runs[t].handed) = 1
    /\ runs[t].handed[1].docker_execution_result # <<>>
    /\ runs[t].handed[1].docker_execution_result[1].success
    /\ runs[t].handed[1].docker_force_execution_result = <<>>

\* C5: a run with is_dev executes no command, every status it holds or hands
\* to the notifier has no command outcome, and every report it posts is
\* titled as a dev-mode report, whatever the head commit.
C5_DevRunExecutesNothing ==
  \A t \in DOMAIN runs :
    runs[t].is_dev
      => /\ runs[t].cmds = <<>>
         /\ ~runs[t].polled
         /\ runs[t].pc \in {"scheduled", "done", "crashed"}
         /\ \A status \in Statuses(t) : status.is_dev /\ NoOutcome(status)
         /\ runs[t].pc = "done" => Len(runs[t].handed) = 1
         /\ (runs[t].pc = "done" /\ webhook_url) => Len(runs[t].reports) = 1
         /\ \A i \in 1..Len(runs[t].reports) :
              /\ runs[t].reports[i].title = "[Development Mode]"
              /\ runs[t].reports[i].results = <<>>

C5_Witness ==
  \E t \in DOMAIN runs :
    /\ runs[t].is_dev
    /\ runs[t].pc = "done"
    /\ runs[t].head_commit.t = "obj"
    /\ Len(runs[t].reports) = 1
    /\ runs[t].reports[1].title = "[Development Mode]"

\* the (repository name, branch) pair of the last request is listed in config.yml
LastListed ==
  /\ LastParsed
  /\ RepoNameOf(last).t = "str"
  /\ \E i \in 1..Len(config) :
       config[i].name = RepoNameOf(last).v /\ config[i].branch = BranchOf(last)

\* C6: with the dev-mode flag on, a push for a (repository, branch) pair
\* listed in the configuration is accepted (and its run then reports as a
\* dev-mode run without executing a command).
C6_DevModeAcceptsListedPush ==
  (development /\ LastListed) => last.response = "accepted"

\* the branch a ref names: what follows refs/heads/ (a ref elsewhere, such as
\* a tag, names no branch)
IsBranchRef(ref) ==
  /\ ref.t = "str"
  /\ Len(ref.v) > 4
  /\ SubSeq(ref.v, 1, 4) = <<"refs", "/", "heads", "/">>

PushedBranch(ref) == SubSeq(ref.v, 5, Len(ref.v))

\* C7: a push to a branch other than the one checked out in the target's
\* working directory never makes a command run in that directory.
C7_PushToOtherBranchIsInert ==
  (last.task # 0 /\ runs[last.task].cmds # <<>>)
    => /\ IsBranchRef(last.ref)
       /\ PushedBranch(last.ref) = worktree[runs[last.task].repo_cfg.path].branch

\* C8: "accepted" is returned before the run of that request executes its
\* first step: when the handler returns, the run it added has not started,
\* and a run that has started belongs to a request already answered.
C8_AcceptedBeforeRunStarts ==
  /\ [](\A t \in DOMAIN runs :
          /\ t <= Len(responses)
          /\ responses[t] = "accepted")
  /\ [][(nreq' = nreq + 1 /\ last'.response = "accepted")
          => /\ nreq' \in DOMAIN runs'
             /\ runs'[nreq'].pc = "scheduled"
             /\ runs'[nreq'].gauge_sets = 0
             /\ runs'[nreq'].cmds = <<>>
             /\ runs'[nreq'].handed = <<>>]_vars
  /\ [][\A t \in DOMAIN runs :
          runs'[t] # runs[t] => (nreq' = nreq /\ responses' = responses)]_vars

C8_Witness ==
  /\ last.response = "accepted"
  /\ last.task = nreq
  /\ runs[nreq].pc = "done"
  /\ Len(runs[nreq].cmds) = 3

\* C9: an event that is not a push is answered "ignored" and does nothing
\* else: no registry lookup, no branch check, no run scheduled, no command,
\* no notification, and the runs in progress are left as they are.
C9_NonPushIgnored ==
  [][(nreq' = nreq + 1 /\ last'.event # "push")
       => /\ last'.response = "ignored"
          /\ ~last'.looked_up
          /\ ~last'.branch_checked
          /\ last'.skip_report = <<>>
          /\ last'.task = 0
          /\ runs' = runs
          /\ REPO_MAP' = REPO_MAP]_vars

C9_Witness ==
  /\ nreq = 2
  /\ last.event = "pull_request"
  /\ last.response = "ignored"
  /\ 1 \in DOMAIN runs

\* C10: a push whose (repository name, branch) pair has no registry entry is
\* answered "ignored"; no branch check, no run, no command, no notification.
C10_UntrackedPushIgnored ==
  [][(nreq' = nreq + 1 /\ LastParsed' /\ ~LastMatched')
       => /\ last'.response = "ignored"
          /\ ~last'.branch_checked
          /\ last'.skip_report = <<>>
          /\ last'.task = 0
          /\ runs' = runs]_vars

C10_Witness ==
  /\ LastParsed
  /\ ~LastMatched
  /\ RepoNameOf(last).t = "str"
  /\ \E k \in DOMAIN REPO_MAP : k[1] = RepoNameOf(last).v
  /\ last.response = "ignored"

\* the requests answered "accepted"
Accepted == { i \in 1..Len(responses) : responses[i] = "accepted" }

IsComposeUp(cmd) == cmd.args[1] = "docker-compose" /\ Len(cmd.args) = 4

IsForceRecreate(cmd) == cmd.args[1] = "docker-compose" /\ Len(cmd.args) > 4

\* the commands of a run are a prefix of: git pull, compose up, force-recreate
InPipelineOrder(cmds) ==
  /\ Len(cmds) <= 3
  /\ Len(cmds) >= 1 => IsGitPull(cmds[1])
  /\ Len(cmds) >= 2 => IsComposeUp(cmds[2])
  /\ Len(cmds) >= 3 => IsForceRecreate(cmds[3])

\* C11: every accepted push has exactly one run and there is no other run;
\* a run enters handle_deploy once and executes each step at most once, so
\* nothing is retried after a failed step.
C11_OneRunPerAcceptedPush ==
  /\ DOMAIN runs = Accepted
  /\ \A t \in DOMAIN runs :
       /\ runs[t].gauge_sets <= 1
       /\ InPipelineOrder(runs[t].cmds)
       /\ Len(runs[t].handed) <= 1

C11_Witness ==
  /\ Accepted = {1, 2}
  /\ Key(runs[1]) = Key(runs[2])
  /\ runs[1].pc = "done"
  /\ Len(runs[1].cmds) = 1
  /\ ~runs[1].handed[1].git_execution_result[1].success
  /\ runs[2].pc = "done"
  /\ Len(runs[2].cmds) = 3
  /\ ~runs[2].handed[1].docker_execution_result[1].success

\* an execution result slot of a DeploymentStatus: None, a success, a failure
ResultSlots ==
  { <<>> } \cup { << run_command(<<"cmd">>, o) >> : o \in ProcOutcomes }

\* the classification read off the dev-mode flag and the sync outcome alone
Classification(is_dev, git_execution_result) ==
  IF is_dev THEN "[Development Mode]"
  ELSE IF git_execution_result = <<>> THEN "Deployment Successful"
  ELSE IF git_execution_result[1].success THEN "Deployment Successful"
  ELSE "Deployment Failed"

\* C12: the title of a report is determined by is_dev and the sync outcome:
\* dev-mode when is_dev, else success when the sync outcome is absent or
\* successful, else failure; the rebuild and force-recreate outcomes never
\* change it. Checked on every report a run sends and on every combination of
\* the four fields.
C12_ClassificationFromDevAndSync ==
  /\ \A t \in DOMAIN runs : \A i \in 1..Len(runs[t].reports) :
       runs[t].reports[i].title =
         Classification(runs[t].handed[i].is_dev,
                        runs[t].handed[i].git_execution_result)
  /\ \A is_dev \in BOOLEAN, git \in ResultSlots, docker \in ResultSlots,
        force \in ResultSlots :
       Title([is_dev |-> is_dev, git_execution_result |-> git,
              docker_execution_result |-> docker,
              docker_force_execution_result |-> force])
         = Classification(is_dev, git)

\* a report titled successful although rebuild and force-recreate both failed
C12_Witness ==
  \E t \in DOMAIN runs :
    /\ runs[t].pc = "done"
    /\ Len(runs[t].reports) = 1
    /\ runs[t].reports[1].title = "Deployment Successful"
    /\ ~runs[t].handed[1].docker_execution_result[1].success
    /\ Len(runs[t].handed[1].docker_force_execution_result) = 1
    /\ ~runs[t].handed[1].docker_force_execution_result[1].success

\* C13: whatever the event kind and the payload (fields missing or null) and
\* whether or not the working directory exists, the webhook handler answers
\* accepted, ignored or skipped; it never ends in an unhandled error.
C13_HandlerAlwaysAnswers ==
  \A i \in 1..Len(responses) : responses[i] \in {"accepted", "ignored", "skipped"}

\* how a child process can end, with more return codes than the runs draw:
\* a negative code is a child killed by a signal
AnyProcOutcome ==
  { [kind |-> "exit", code |-> c] : c \in {0, 1, 2, 128, 255, -9} }
    \cup { [kind |-> "timeout", code |-> 0], [kind |-> "launch_error", code |-> 0] }

\* the commands handle_deploy passes to run_command
AnyCommand ==
  { <<"git", "pull", "origin">> \o b : b \in {main, dev} }
    \cup { <<"docker-compose", "up", "--build", "-d">>,
           <<"docker-compose", "up", "--build", "-d", "--force-recreate", "--no-deps",
             "web">> }

\* the execution results a run has stored so far, in the order of its commands
Results(run) ==
  IF run.status = <<>> THEN <<>> ELSE Shown(run.status[1])

\* C14: run_command returns a result for every command and every way the child
\* can end; success is true exactly when the child ran to completion with exit
\* code 0; a timeout or a launch failure gives success false and a non-zero
\* exit code. Every result a run holds is such a result for the command the
\* run executed.
C14_RunCommandResult ==
  /\ \A args \in AnyCommand, o \in AnyProcOutcome :
       LET result == run_command(args, o)
       IN /\ result.command = Join(args)
          /\ result.success <=> (o.kind = "exit" /\ o.code = 0)
          /\ o.kind = "exit" => result.exit_code = o.code
          /\ o.kind # "exit" => ~result.success /\ result.exit_code # 0
  /\ \A t \in DOMAIN runs :
       LET results == Results(runs[t])
       IN /\ Len(results) <= Len(runs[t].cmds)
          /\ \A i \in 1..Len(results) :
               /\ results[i].command = Join(runs[t].cmds[i].args)
               /\ results[i].success <=> results[i].exit_code = 0

\* a finished run: sync succeeded, rebuild failed, force-recreate succeeded
C14_Witness ==
  \E t \in DOMAIN runs :
    /\ runs[t].pc = "done"
    /\ Len(runs[t].cmds) = 3
    /\ Results(runs[t])[1].success
    /\ ~Results(runs[t])[2].success
    /\ Results(runs[t])[2].exit_code = 1
    /\ Results(runs[t])[2].command
         = <<"docker-compose", " ", "up", " ", "--build", " ", "-d">>
    /\ Results(runs[t])[3].success

Whitespace == {" ", "\t", "\n"}

\* the first n characters of s (all of s when it is shorter)
Take(s, n) == [i \in 1..(IF Len(s) < n THEN Len(s) ELSE n) |-> s[i]]

\* the commit id of the status behind the i-th report of a run
ReportedId(run, i) == run.handed[i].commit_id.v

ExampleHash ==
  <<"a", "b", "c", "d", "e", "f", "1", "2", "3", "4", "5", "6", "7">>

ExamplePlaceholder ==
  <<"n", "o", " ", "c", "o", "m", "m", "i", "t", " ", "i", "n", "f", "o">>

\* C15: the commit id shown in a report is the first 7 characters of the id when
\* the id contains no whitespace, and the id verbatim when it contains
\* whitespace.
C15_ShortUnlessWhitespace ==
  \A t \in DOMAIN runs : \A i \in 1..Len(runs[t].reports) :
    LET id == ReportedId(runs[t], i)
    IN runs[t].reports[i].commit =
         IF \E k \in 1..Len(id) : id[k] \in Whitespace THEN id ELSE Take(id, 7)

\* C15 (amended): the commit id shown in a report is the first 7 characters of
\* the id when the id contains no space character, and the id verbatim when it
\* contains a space; "abcdef1234567" is shown as "abcdef1" and "no commit info"
\* is shown unchanged.
C15_ShortUnlessSpace ==
  /\ \A t \in DOMAIN runs : \A i \in 1..Len(runs[t].reports) :
       LET id == ReportedId(runs[t], i)
       IN runs[t].reports[i].commit =
            IF \E k \in 1..Len(id) : id[k] = " " THEN id ELSE Take(id, 7)
  /\ CommitIdToUse(ExampleHash) = <<"a", "b", "c", "d", "e", "f", "1">>
  /\ CommitIdToUse(ExamplePlaceholder) = ExamplePlaceholder

\* reports have shown a placeholder id verbatim
C15_Witness ==
  \E t \in DOMAIN runs :
    /\ Len(runs[t].reports) = 1
    /\ ReportedId(runs[t], 1) = PlaceholderId
    /\ runs[t].reports[1].commit = PlaceholderId

\* entries to load: two with the same key and different contents, one other
SampleEntries ==
  { RepoConfig(r1, main, "p1", <<"web">>), RepoConfig(r1, main, "p2", <<>>),
    RepoConfig(r1, dev, "p2", <<>>) }

EntryLists == UNION { [1..n -> SampleEntries] : n \in 0..MaxEntries }

\* the entry a lookup of (name, branch) must find after loading `entries`:
\* the last one with that key, or none
LastWithKey(entries, name, branch) ==
  LET at == { i \in 1..Len(entries) :
                entries[i].name = name /\ entries[i].branch = branch }
  IN IF at = {} THEN <<>>
     ELSE << entries[CHOOSE i \in at : \A j \in at : j <= i] >>

\* loading any list of entries gives the lookups of LastWithKey
LoadedLookups ==
  \A entries \in EntryLists : \A name \in {r1, r2}, branch \in {main, dev} :
    RepoMapGet(LoadEntries(entries, [k \in {} |-> 0]), Str(name), branch)
      = LastWithKey(entries, name, branch)

\* C16: after the configuration entries are loaded, a lookup by (repository
\* name, branch) returns exactly the entry with that key, the last one when
\* several entries share the key, or none; requests and runs never change the
\* registry, so this holds in every state, and every run works on the entry
\* the lookup gives.
C16_RegistryLookup ==
  /\ LoadedLookups
  /\ ~development =>
       \A name \in {r1, r2}, branch \in {main, dev} :
         RepoMapGet(REPO_MAP, Str(name), branch) = LastWithKey(config, name, branch)
  /\ \A t \in DOMAIN runs :
       << runs[t].repo_cfg >>
         = LastWithKey(config, runs[t].repo_cfg.name, runs[t].repo_cfg.branch)

\* two entries share a key and a finished run used the later one
C16_Witness ==
  /\ config[1] # config[2]
  /\ config[1].name = config[2].name /\ config[1].branch = config[2].branch
  /\ \E t \in DOMAIN runs :
       /\ runs[t].pc = "done"
       /\ runs[t].repo_cfg = config[2]
       /\ Len(runs[t].cmds) = 2

\* the run has got past its git pull and the pull succeeded
SyncSucceeded(run) ==
  /\ Len(Results(run)) >= 1
  /\ Results(run)[1].success

\* C17: in a run that is not in dev mode, whose sync succeeded and whose target
\* lists containers to force-recreate, the force-recreate command is executed
\* after the rebuild command whatever the rebuild's outcome: once the rebuild
\* is over the run is at the force-recreate step, and when the run is over its
\* commands are sync, rebuild, force-recreate of the listed containers.
C17_ForceRecreateAfterRebuild ==
  \A t \in DOMAIN runs :
    ( /\ ~runs[t].is_dev
      /\ SyncSucceeded(runs[t])
      /\ runs[t].repo_cfg.containers_to_force_recreate # <<>> )
    => /\ Len(runs[t].cmds) = 2 => runs[t].pc = "force_recreate"
       /\ runs[t].pc \in {"done", "crashed"} =>
            /\ Len(runs[t].cmds) = 3
            /\ IsComposeUp(runs[t].cmds[2])
            /\ runs[t].cmds[3].args =
                 <<"docker-compose", "up", "--build", "-d", "--force-recreate",
                   "--no-deps">> \o runs[t].repo_cfg.containers_to_force_recreate

\* a finished run whose rebuild failed and whose force-recreate was executed
C17_Witness ==
  \E t \in DOMAIN runs :
    /\ runs[t].pc = "done"
    /\ SyncSucceeded(runs[t])
    /\ ~Results(runs[t])[2].success
    /\ Len(runs[t].cmds) = 3
    /\ IsForceRecreate(runs[t].cmds[3])

\* C18: every run that starts completes and hands its DeploymentStatus to the
\* notifier exactly once, after its last step, on every path (dev mode, sync
\* failed, sync succeeded with any rebuild and force-recreate outcomes); no
\* run ends in an unhandled exception.
C18_RunCompletesAndNotifiesOnce ==
  \A t \in DOMAIN runs :
    /\ runs[t].pc # "crashed"
    /\ Len(runs[t].handed) <= 1
    /\ runs[t].pc = "done" =>
         /\ Len(runs[t].handed) = 1
         /\ Results(runs[t]) = Shown(runs[t].handed[1])

\* C19: the push-timestamp gauge of the target is set exactly once per run, at
\* the run's entry: not before the run starts, once from then on whatever the
\* run's outcome, and before the sync command (or any command) is executed.
C19_GaugeSetOnceAtEntry ==
  \A t \in DOMAIN runs :
    /\ runs[t].pc = "scheduled" => runs[t].gauge_sets = 0
    /\ runs[t].pc # "scheduled" => runs[t].gauge_sets = 1
    /\ runs[t].gauge_sets = 0 => runs[t].cmds = <<>> /\ runs[t].handed = <<>>

\* a finished dev-mode run: the gauge was set and no command was executed
C19_Witness ==
  \E t \in DOMAIN runs :
    /\ runs[t].is_dev
    /\ runs[t].pc = "done"
    /\ runs[t].gauge_sets = 1
    /\ runs[t].cmds = <<>>

\* what a status must carry for a head commit whose fields are strings or
\* absent: the field, or its sentinel
IdOrSentinel(head_commit) ==
  IF head_commit.t = "obj" /\ head_commit.id.t = "str"
  THEN head_commit.id.v ELSE <<"u", "n", "k", "n", "o", "w", "n">>

MessageOrSentinel(head_commit) ==
  IF head_commit.t = "obj" /\ head_commit.message.t = "str"
  THEN head_commit.message.v ELSE <<"No message">>

AuthorOrSentinel(head_commit) ==
  IF head_commit.t = "obj" /\ head_commit.author.t = "obj"
     /\ head_commit.author.username.t = "str"
  THEN head_commit.author.username.v ELSE <<"u", "n", "k", "n", "o", "w", "n">>

\* C20: a push payload that lacks ref, repository, head_commit or any of the
\* head commit's id, message and author gets a normal response (ignored when
\* ref or repository is absent, accepted otherwise); a run started from it
\* never ends in an exception, carries "unknown" / "No message" / "unknown"
\* for the absent fields, and ends by handing its status to the notifier,
\* which posts a report whenever the webhook URL is configured.
C20_MissingFieldsNotFatal ==
  /\ \A i \in 1..Len(responses) : responses[i] \in {"accepted", "ignored"}
  /\ (nreq > 0 /\ (last.ref.t = "missing" \/ last.repository.t = "missing"
                   \/ last.repository.name.t = "missing"))
       => last.response = "ignored"
  /\ \A t \in DOMAIN runs :
       /\ runs[t].pc # "crashed"
       /\ runs[t].status # <<>> =>
            /\ runs[t].status[1].commit_id = Str(IdOrSentinel(runs[t].head_commit))
            /\ runs[t].status[1].commit_msg
                 = Str(MessageOrSentinel(runs[t].head_commit))
            /\ runs[t].status[1].author = Str(AuthorOrSentinel(runs[t].head_commit))
       /\ runs[t].pc = "done" =>
            /\ Len(runs[t].handed) = 1
            /\ runs[t].handed[1] = runs[t].status[1]
            /\ Len(runs[t].reports) = IF webhook_url THEN 1 ELSE 0
            /\ webhook_url =>
                 runs[t].reports[1].commit = Take(IdOrSentinel(runs[t].head_commit), 7)

\* a push without head_commit was accepted and its run has reported with the
\* sentinels
C20_Witness ==
  /\ webhook_url
  /\ \E t \in DOMAIN runs :
       /\ runs[t].head_commit = NoCommit
       /\ runs[t].pc = "done"
       /\ Len(runs[t].cmds) = 3
       /\ runs[t].handed[1].commit_id = Str(Unknown)
       /\ runs[t].handed[1].commit_msg = Str(NoMessage)
       /\ runs[t].handed[1].author = Str(Unknown)
       /\ runs[t].reports[1].commit = Unknown

====
